---- MODULE Spec2Model ----
(***************************************************************************)
(* Voice-channel nickname bot (S-Foxx/VN-Bot).                             *)
(*                                                                         *)
(* The presence tracker exists in two variants in the repository:          *)
(*   "bot"     - src/bot.py          (class VoiceNicknameBot)              *)
(*   "working" - src/bot_working.py  (the module main.py imports)          *)
(* Init chooses the variant; every handler below is translated once per    *)
(* variant.  Handlers are coroutines: the part up to `await member.edit`   *)
(* runs atomically when the event is dispatched, the part after it runs    *)
(* when the connector answers (EditDone).  Other handlers run in between.  *)
(* src/bot_final.py repeats the join and leave handlers of bot_working.py. *)
(*                                                                         *)
(* Texts (account names, nicknames, templates) are sequences of one-char   *)
(* strings.  Python's falsy text (None or "") is the empty sequence: the   *)
(* code only ever tests these values for truthiness, and the connector     *)
(* treats nick="" and nick=None alike.                                     *)
(***************************************************************************)
EXTENDS Integers, Sequences, FiniteSets, TLC

VARIABLES
    variant,             \* which tracker module is running
    original_nicknames,  \* self.original_nicknames: user id -> original nickname,
                         \*   tagged with the event and guild that captured it
    nick,                \* connector: nick[u][g], the member's nickname override
    voice,               \* connector: voice[u][g], the member's voice channel
    tasks,               \* handler coroutines suspended in `await member.edit`
    requests,            \* every member.edit request issued so far, in order
    genCalls,            \* number of generate_nickname calls so far
    nops,                \* number of events and commands dispatched so far
    last,                \* what the latest step was (event, command, answer)
    rt,                  \* per user: progress of a join / leave round trip
    db,                  \* self.db is not None
    guilds,              \* table guilds: guild id -> row
    nicknames,           \* table nicknames: set of rows
    removed              \* history: the (guild, template) pairs removed with
                         \*   success and not added again since

vars == <<variant, original_nicknames, nick, voice, tasks, requests, genCalls,
          nops, last, rt, db, guilds, nicknames, removed>>

store == <<db, guilds, nicknames, removed>>

(***************************************************************************)
(* Bounds and the small universe                                           *)
(***************************************************************************)
MaxOps == 3
MaxTasks == 2

None == <<>>
NoChannel == "none"
Nobody == "-"

Humans == {"u1", "u2"}
Bots == {"b1"}
Users == Humans \cup Bots
Guilds == {"g1", "g2"}
Channels == {"c1", "c2"}
Variants == {"bot", "working"}
Outcomes == {"ok", "forbidden", "error"}

\* guild.members: u1 is in both guilds, the others in g1 only
IsMember(u, g) == u = "u1" \/ g = "g1"

\* member.name: the account name
name == [u \in Users |-> IF u = "u1" THEN <<"a">> ELSE IF u = "u2" THEN <<"b">> ELSE <<"z">>]

\* member.bot
is_bot(u) == u \in Bots

\* guild.owner_id as the platform reports it
owner_id == [g \in Guilds |-> IF g = "g1" THEN "u2" ELSE "u1"]

\* member.display_name: the nickname override when set, else the account name
display_name(u, g) == IF nick[u][g] # None THEN nick[u][g] ELSE name[u]

\* variation: the assignment replaces the whole mapping
Put_replaces(f, k, v) == [x \in {k} |-> v]

\* d[k] = v
Put(f, k, v) == [x \in DOMAIN f \cup {k} |-> IF x = k THEN v ELSE f[x]]
Del(f, k) == [x \in DOMAIN f \ {k} |-> f[x]]

(***************************************************************************)
(* Identity generator                                                      *)
(***************************************************************************)
\* keys of config.BOT_CONFIG
BOT_CONFIG == {"command_prefix", "description"}

\* config.NICKNAME_FORMATS
NICKNAME_FORMATS == {<<"S", "u", "b", "j", "e", "c", "t", " ", "0", "3", "2">>,
                     <<"O", "p", "e", "r", "a", "t", "o", "r", "-", "9", "1">>,
                     <<"N", "a", "i", "b", "-", "{", "c", "o", "u", "n", "t", "e", "r", ":", "0", "3", "d", "}">>}

Digit(n) == CASE n = 0 -> "0" [] n = 1 -> "1" [] n = 2 -> "2" [] n = 3 -> "3"
              [] n = 4 -> "4" [] n = 5 -> "5" [] n = 6 -> "6" [] n = 7 -> "7"
              [] n = 8 -> "8" [] n = 9 -> "9"

\* f"{counter:03d}"
Pad3(n) == IF n < 1000
           THEN <<Digit(n \div 100), Digit((n \div 10) % 10), Digit(n % 10)>>
           ELSE <<Digit(n \div 1000)>> \o <<Digit((n \div 100) % 10), Digit((n \div 10) % 10), Digit(n % 10)>>

\* the counters random.randint(1, 999) is sampled at
Counters == {1, 42, 999}

\* variation: the query does not look at is_active
get_random_nickname_any(g) ==
    LET rows == {r \in nicknames : r.guild_id = g}
    IN  IF rows = {} THEN {None} ELSE {r.nickname : r \in rows}

\* DatabaseManager.get_random_nickname: the texts it may return (None when
\* the guild has no active row)
get_random_nickname(g) ==
    LET active == {r \in nicknames : r.guild_id = g /\ r.is_active}
    IN  IF active = {} THEN {None} ELSE {r.nickname : r \in active}

\* generate_nickname: the set of results, [raised, val]
generate_nickname(g) ==
    LET fromStore == IF db THEN {[raised |-> FALSE, val |-> t] : t \in get_random_nickname(g) \ {None}}
                           ELSE {}
        fallback == IF "nickname_formats" \in BOT_CONFIG
                    THEN {[raised |-> FALSE, val |-> s \o <<" ">> \o Pad3(c)] :
                              s \in NICKNAME_FORMATS, c \in Counters}
                    ELSE {[raised |-> TRUE, val |-> None]}
        \* the fallback runs when self.db is None, when the store returns None
        \* and when the store call raises, which it may do at any call
    IN  fromStore \cup fallback


(***************************************************************************)
(* Handlers.  Each operator is the set of effects its code can have in the *)
(* current state: the new ledger, suspended coroutines and request log,    *)
(* the generator calls made, whether an exception left the handler, and    *)
(* the reply sent to the command's caller.                                 *)
(***************************************************************************)
Eff(led, tsk, req, gen, exc, reply, val) ==
    [led |-> led, tsk |-> tsk, req |-> req, gen |-> gen, exc |-> exc,
     reply |-> reply, val |-> val]

NoEffect == Eff(original_nicknames, tasks, requests, genCalls, FALSE, "none", None)

\* A ledger entry is the stored text (nick).  The tags op and g are history,
\* never read by a handler: the event that captured the entry and its guild.
Rec(d, id, g) == [nick |-> d, op |-> id, g |-> g]

\* A suspended coroutine: its locals, and rec, the tag of the ledger entry
\* it created (join) or read (leave, restore)
Task(id, kind, u, g, n, orig, rec) ==
    [id |-> id, kind |-> kind, u |-> u, g |-> g, nick |-> n, orig |-> orig, rec |-> rec]

\* A request in the log: id is the event or command whose handler issued it
Req(id, kind, u, g, n, rec) ==
    [id |-> id, kind |-> kind, u |-> u, g |-> g, nick |-> n, rec |-> rec]

\* member.edit(nick=...) is called: the coroutine suspends, the request is out
Edit(led, id, kind, u, g, n, orig, rec) ==
    Eff(led, tasks \cup {Task(id, kind, u, g, n, orig, rec)},
        Append(requests, Req(id, kind, u, g, n, rec)), genCalls, FALSE, "none", None)

\* variation: the comparison with member.name inverted
restore_nick_inverted(orig, u) == IF orig = name[u] THEN orig ELSE None

\* nick=original_nickname if original_nickname != member.name else None
restore_nick(orig, u) == IF orig # name[u] THEN orig ELSE None

---------------------------------------------------------------------------
\* bot.py

handle_voice_join(u, g, id) ==
    IF u \in DOMAIN original_nicknames
    THEN {NoEffect}
    ELSE LET led == Put(original_nicknames, u, Rec(display_name(u, g), id, g))
         IN  { IF r.raised
               THEN Eff(led, tasks, requests, genCalls + 1, TRUE, "none", None)
               ELSE IF r.val # None
               THEN [Edit(led, id, "join", u, g, r.val, None, id) EXCEPT !.gen = genCalls + 1]
               ELSE Eff(led, tasks, requests, genCalls + 1, FALSE, "none", None)
               : r \in generate_nickname(g) }

\* variation: an untracked user's nickname is cleared instead of skipped
handle_voice_leave_clears(u, g, id) ==
    IF u \notin DOMAIN original_nicknames
    THEN {Edit(original_nicknames, id, "leave", u, g, None, None, 0)}
    ELSE LET orig == original_nicknames[u]
         IN  {Edit(Del(original_nicknames, u), id, "leave", u, g,
                   restore_nick(orig.nick, u), orig.nick, orig.op)}

handle_voice_leave(u, g, id) ==
    IF u \notin DOMAIN original_nicknames
    THEN {NoEffect}
    ELSE LET orig == original_nicknames[u]
         IN  {Edit(Del(original_nicknames, u), id, "leave", u, g,
                   restore_nick(orig.nick, u), orig.nick, orig.op)}

\* variation: an untracked member's nickname is cleared before the reply
restore_command_clears(by, m, g, id) ==
    LET u == IF m = Nobody THEN by ELSE m
    IN  IF u \in DOMAIN original_nicknames
        THEN LET orig == original_nicknames[u]
             IN  {Edit(Del(original_nicknames, u), id, "restore", u, g,
                       restore_nick(orig.nick, u), orig.nick, orig.op)}
        ELSE {[Edit(original_nicknames, id, "restore", u, g, None, None, 0)
                  EXCEPT !.reply = "NotTracked"]}

\* restore_command(interaction, member): by is interaction.user, m the member argument
restore_command(by, m, g, id) ==
    LET u == IF m = Nobody THEN by ELSE m
    IN  IF u \in DOMAIN original_nicknames
        THEN LET orig == original_nicknames[u]
             IN  {Edit(Del(original_nicknames, u), id, "restore", u, g,
                       restore_nick(orig.nick, u), orig.nick, orig.op)}
        ELSE {[NoEffect EXCEPT !.reply = "NotTracked"]}

\* the code after `await member.edit(...)` of the suspended coroutine t
edit_returned(t, outcome) ==
    IF t.kind = "restore"
    THEN IF outcome = "ok"
         THEN [NoEffect EXCEPT !.reply = "Restored", !.val = t.orig]
         ELSE IF outcome = "forbidden"
         THEN [NoEffect EXCEPT !.reply = "Forbidden"]
         ELSE [NoEffect EXCEPT !.reply = "Error"]
    ELSE NoEffect

---------------------------------------------------------------------------
\* bot_working.py

working_handle_voice_join(u, g, id) ==
    LET led == Put(original_nicknames, u, Rec(display_name(u, g), id, g))
    IN  { IF r.raised
          THEN Eff(led, tasks, requests, genCalls + 1, FALSE, "none", None)
          ELSE IF r.val # None
          THEN [Edit(led, id, "join", u, g, r.val, None, id) EXCEPT !.gen = genCalls + 1]
          ELSE Eff(led, tasks, requests, genCalls + 1, FALSE, "none", None)
          : r \in generate_nickname(g) }

working_handle_voice_leave(u, g, id) ==
    IF u \in DOMAIN original_nicknames
    THEN LET orig == original_nicknames[u]
         IN  {Edit(original_nicknames, id, "leave", u, g,
                   restore_nick(orig.nick, u), orig.nick, orig.op)}
    ELSE {NoEffect}

working_restore_command(by, m, g, id) ==
    LET u == IF m = Nobody THEN by ELSE m
    IN  IF by # owner_id[g]
        THEN {[NoEffect EXCEPT !.reply = "NotOwner"]}
        ELSE IF u \in DOMAIN original_nicknames
        THEN LET orig == original_nicknames[u]
             IN  {Edit(original_nicknames, id, "restore", u, g,
                       restore_nick(orig.nick, u), orig.nick, orig.op)}
        ELSE {[NoEffect EXCEPT !.reply = "NotTracked"]}

\* the code after `await member.edit(...)`: `del` runs only when the edit
\* returned, and raises KeyError (caught by `except Exception`) when the
\* key is gone by then
working_edit_returned(t, outcome) ==
    IF t.kind = "join"
    THEN NoEffect
    ELSE IF outcome = "ok"
    THEN IF t.u \in DOMAIN original_nicknames
         THEN IF t.kind = "restore"
              THEN [NoEffect EXCEPT !.led = Del(original_nicknames, t.u),
                                    !.reply = "Restored", !.val = t.orig]
              ELSE [NoEffect EXCEPT !.led = Del(original_nicknames, t.u)]
         ELSE IF t.kind = "restore" THEN [NoEffect EXCEPT !.reply = "Error"] ELSE NoEffect
    ELSE IF t.kind = "restore"
    THEN [NoEffect EXCEPT !.reply = IF outcome = "forbidden" THEN "Forbidden" ELSE "Error"]
    ELSE NoEffect

---------------------------------------------------------------------------
\* The handler the running variant binds to each name

join(u, g, id) ==
    IF variant = "bot" THEN handle_voice_join(u, g, id) ELSE working_handle_voice_join(u, g, id)

leave(u, g, id) ==
    IF variant = "bot" THEN handle_voice_leave(u, g, id) ELSE working_handle_voice_leave(u, g, id)

restore(by, m, g, id) ==
    IF variant = "bot" THEN restore_command(by, m, g, id) ELSE working_restore_command(by, m, g, id)

resumed(t, outcome) ==
    IF variant = "bot" THEN edit_returned(t, outcome) ELSE working_edit_returned(t, outcome)

IsJoinEdge(before, after) == before = NoChannel /\ after # NoChannel
IsLeaveEdge(before, after) == before # NoChannel /\ after = NoChannel

\* variation: the join branch looks at after.channel only
on_voice_state_update_after_only(u, g, before, after, id) ==
    IF is_bot(u)
    THEN {NoEffect}
    ELSE IF after # NoChannel
    THEN join(u, g, id)
    ELSE IF IsLeaveEdge(before, after)
    THEN leave(u, g, id)
    ELSE {NoEffect}

\* variation: no member.bot check
on_voice_state_update_unfiltered(u, g, before, after, id) ==
    IF IsJoinEdge(before, after)
    THEN join(u, g, id)
    ELSE IF IsLeaveEdge(before, after)
    THEN leave(u, g, id)
    ELSE {NoEffect}

on_voice_state_update(u, g, before, after, id) ==
    IF is_bot(u)
    THEN {NoEffect}
    ELSE IF IsJoinEdge(before, after)
    THEN join(u, g, id)
    ELSE IF IsLeaveEdge(before, after)
    THEN leave(u, g, id)
    ELSE {NoEffect}

(***************************************************************************)
(* History: the latest step, and the round-trip monitor                    *)
(***************************************************************************)
\* op: "voice" (a voice state update was handled), "restore" (a /restore
\* command was handled) or "done" (the connector answered a request);
\* edge: what the voice state update was; kind, rec, outcome: the answered
\* coroutine; exc: an exception left the handler; by: the command's caller;
\* reply, val: the response
\* sent to the command's caller and the nickname it reports; rows: the rows
\* a store query returned; perm: the caller of the command holds the
\* Manage Nicknames permission
NoLast ==
    [op |-> "init", u |-> Nobody, g |-> Nobody, by |-> Nobody, edge |-> "none", kind |-> "none",
     rec |-> 0, outcome |-> "none", exc |-> FALSE, reply |-> "none", val |-> None,
     rows |-> <<>>, perm |-> FALSE]

Edge(before, after) ==
    IF IsJoinEdge(before, after) THEN "join"
    ELSE IF IsLeaveEdge(before, after) THEN "leave"
    ELSE IF before = after THEN "same"
    ELSE "move"

RtIdle == [st |-> "idle", g |-> Nobody, d |-> None]

Busy(u) == \E t \in tasks : t.u = u

\* rt[u] follows one user through "a join that is immediately followed by a
\* leave in the same guild, every connector call succeeding": it starts at
\* a join edge handled while u has no record and no pending request, and
\* is dropped by anything else that happens to u.  After a restart rt[u] is
\* "forgotten" for a user whose entry the old process held (g and d are
\* that entry's guild and stored original), and "lost" once the first leave
\* of that user has been handled with nothing else handled for u before it.
RtEvent(u, g, before, after, e) ==
    IF is_bot(u) THEN rt[u]
    ELSE IF IsJoinEdge(before, after)
    THEN IF u \notin DOMAIN original_nicknames /\ ~Busy(u)
         THEN [st |-> IF e.tsk # tasks THEN "joining" ELSE "joined",
               g |-> g, d |-> display_name(u, g)]
         ELSE RtIdle
    ELSE IF IsLeaveEdge(before, after)
    THEN IF rt[u].st = "joined" /\ rt[u].g = g
         THEN [rt[u] EXCEPT !.st = IF e.tsk # tasks THEN "leaving" ELSE "left"]
         ELSE IF rt[u].st = "forgotten"
         THEN [rt[u] EXCEPT !.st = "lost"]
         ELSE RtIdle
    ELSE rt[u]

RtDone(t, outcome) ==
    IF rt[t.u].st = "joining" /\ t.kind = "join" /\ outcome = "ok"
    THEN [rt[t.u] EXCEPT !.st = "joined"]
    ELSE IF rt[t.u].st = "leaving" /\ t.kind = "leave" /\ outcome = "ok"
    THEN [rt[t.u] EXCEPT !.st = "left"]
    ELSE RtIdle

(***************************************************************************)
(* The state machine                                                       *)
(***************************************************************************)
Apply(e) ==
    /\ Cardinality(e.tsk) <= MaxTasks
    /\ original_nicknames' = e.led
    /\ tasks' = e.tsk
    /\ requests' = e.req
    /\ genCalls' = e.gen

\* The bot starts with an empty ledger whoever is in a voice channel then:
\* here u2 sits in a channel of g1 and nobody else is connected
InitVoice ==
    [u \in Users |-> [g \in Guilds |-> IF u = "u2" /\ g = "g1" THEN "c1" ELSE NoChannel]]

Init ==
    /\ variant \in Variants
    /\ original_nicknames = [u \in {} |-> None]
    /\ nick = [u \in Users |-> [g \in Guilds |->
                  IF u = "u1" /\ g = "g2" THEN <<"A">>
                  ELSE IF u = "u2" /\ g = "g1" THEN <<"B">>
                  ELSE None]]
    /\ voice = InitVoice
    /\ tasks = {}
    /\ requests = <<>>
    /\ genCalls = 0
    /\ nops = 0
    /\ last = NoLast
    /\ rt = [u \in Users |-> RtIdle]
    /\ db \in BOOLEAN
    /\ guilds = [g \in Guilds |-> [name |-> <<"G">>, owner_id |-> owner_id[g]]]
    /\ nicknames = {[id |-> 1, guild_id |-> "g1", nickname |-> <<"S">>, is_active |-> TRUE, created_by |-> "u1"],
                    [id |-> 2, guild_id |-> "g1", nickname |-> <<"O">>, is_active |-> FALSE, created_by |-> "u1"]}
    /\ removed = {}

\* on_voice_state_update runs for member (u, g) up to its first await
VoiceEvent(u, g, after) ==
    /\ LET before == voice[u][g]
       IN  \E e \in on_voice_state_update(u, g, before, after, nops + 1) :
              /\ Apply(e)
              /\ last' = [NoLast EXCEPT !.op = "voice", !.u = u, !.g = g,
                                        !.edge = Edge(before, after), !.exc = e.exc]
              /\ rt' = [rt EXCEPT ![u] = RtEvent(u, g, before, after, e)]
    /\ voice' = [voice EXCEPT ![u][g] = after]
    /\ nops' = nops + 1
    /\ UNCHANGED <<variant, nick, store>>

\* the gateway delivers a voice state update of member (u, g)
VoiceStateUpdate(u, g, after) ==
    /\ nops < MaxOps
    /\ VoiceEvent(u, g, after)

\* a user runs /restore in guild g
RestoreCommand(by, m, g) ==
    /\ nops < MaxOps
    /\ \E e \in restore(by, m, g, nops + 1) :
          /\ Apply(e)
          /\ last' = [NoLast EXCEPT !.op = "restore", !.u = IF m = Nobody THEN by ELSE m,
                                    !.g = g, !.by = by, !.reply = e.reply, !.val = e.val]
    /\ rt' = [rt EXCEPT ![IF m = Nobody THEN by ELSE m] = RtIdle]
    /\ nops' = nops + 1
    /\ UNCHANGED <<variant, nick, voice, store>>

\* the connector answers a pending member.edit and the coroutine resumes
EditDone(t, outcome) ==
    /\ t \in tasks
    /\ nick' = IF outcome = "ok" THEN [nick EXCEPT ![t.u][t.g] = t.nick] ELSE nick
    /\ LET e == resumed(t, outcome)
       IN  /\ original_nicknames' = e.led
           /\ last' = [NoLast EXCEPT !.op = "done", !.u = t.u, !.g = t.g, !.kind = t.kind,
                                     !.rec = t.rec,
                                     !.outcome = outcome, !.exc = e.exc,
                                     !.reply = e.reply, !.val = e.val]
    /\ tasks' = tasks \ {t}
    /\ rt' = [rt EXCEPT ![t.u] = RtDone(t, outcome)]
    /\ UNCHANGED <<variant, voice, requests, genCalls, nops, store>>

Next ==
    \/ \E u \in Users, g \in Guilds, after \in Channels \cup {NoChannel} :
          IsMember(u, g) /\ VoiceStateUpdate(u, g, after)
    \/ \E by \in Humans, m \in Users \cup {Nobody}, g \in Guilds :
          IsMember(by, g) /\ (m # Nobody => IsMember(m, g)) /\ RestoreCommand(by, m, g)
    \/ \E t \in tasks, outcome \in Outcomes : EditDone(t, outcome)

Spec == Init /\ [][Next]_vars

TypeOK ==
    /\ variant \in Variants
    /\ DOMAIN original_nicknames \subseteq Users
    /\ nops \in 0..MaxOps
    /\ Cardinality(tasks) <= MaxTasks

\* the same machine restricted to one variant
SpecBot == Init /\ variant = "bot" /\ [][Next]_vars
SpecWorking == Init /\ variant = "working" /\ [][Next]_vars

\* Fair delivery.  A member who is in a voice channel leaves it at some
\* point and the gateway delivers that update whatever else was dispatched
\* (LeaveDelivered is not counted against MaxOps); the connector answers
\* every pending request.
LeaveDelivered(u, g) ==
    /\ voice[u][g] # NoChannel
    /\ VoiceEvent(u, g, NoChannel)

NextLive ==
    \/ Next
    \/ \E u \in Humans, g \in Guilds : IsMember(u, g) /\ LeaveDelivered(u, g)

Fairness ==
    /\ \A u \in Humans, g \in Guilds : WF_vars(IsMember(u, g) /\ LeaveDelivered(u, g))
    /\ WF_vars(\E t \in tasks, outcome \in Outcomes : EditDone(t, outcome))

SpecLive == Init /\ [][NextLive]_vars /\ Fairness
SpecLiveBot == Init /\ variant = "bot" /\ [][NextLive]_vars /\ Fairness

(***************************************************************************)
(* Restart.  The process stops and a new one starts: the ledger is built   *)
(* anew, the suspended coroutines are gone, the platform keeps nicknames   *)
(* and voice states.  Of the requests that were pending, any may still     *)
(* have reached the platform; the database is opened again and may or may  *)
(* not be available.                                                       *)
(***************************************************************************)
\* variation: the new process starts with the ledger of the old one
new_ledger_persisted(old) == old

\* VoiceNicknameBot.__init__: self.original_nicknames = {}; old is the
\* ledger of the process before
new_ledger(old) == [u \in {} |-> None]

\* the nicknames after the requests S, of those pending, were carried out
\* in the order they were issued
Delivered(S) ==
    [u \in Users |-> [g \in Guilds |->
        LET mine == {t \in S : t.u = u /\ t.g = g}
        IN  IF mine = {} THEN nick[u][g]
            ELSE (CHOOSE t \in mine : \A t2 \in mine : t2.id <= t.id).nick]]

Restart ==
    /\ nops < MaxOps
    /\ original_nicknames' = new_ledger(original_nicknames)
    /\ tasks' = {}
    /\ \E S \in SUBSET tasks : nick' = Delivered(S)
    /\ last' = [NoLast EXCEPT !.op = "restart"]
    /\ rt' = [u \in Users |->
                IF u \in DOMAIN original_nicknames
                THEN [st |-> "forgotten", g |-> original_nicknames[u].g,
                      d |-> original_nicknames[u].nick]
                ELSE RtIdle]
    /\ nops' = nops + 1
    /\ db' \in BOOLEAN
    /\ UNCHANGED <<variant, voice, requests, genCalls, guilds, nicknames, removed>>

NextRestart ==
    \/ Next
    \/ Restart

SpecRestart == Init /\ [][NextRestart]_vars

(***************************************************************************)
(* The nickname store (models.py, class DatabaseManager).                  *)
(* guilds is the table guilds (guild id -> row), nicknames the table       *)
(* nicknames (a set of rows; rows are never deleted, so the autoincrement  *)
(* id of a new row is the number of rows plus one).                        *)
(***************************************************************************)
MaxCalls == 3

Whitespace == {" "}

\* str.strip()
RECURSIVE lstrip(_)
lstrip(s) == IF s # <<>> /\ Head(s) \in Whitespace THEN lstrip(Tail(s)) ELSE s

RECURSIVE rstrip(_)
rstrip(s) == IF s # <<>> /\ s[Len(s)] \in Whitespace THEN rstrip(SubSeq(s, 1, Len(s) - 1)) ELSE s

\* variation: the text is taken as typed
strip_nothing(s) == s

strip(s) == rstrip(lstrip(s))

\* case folding of one character, as ILIKE compares
lower(c) == CASE c = "S" -> "s" [] c = "O" -> "o" [] c = "A" -> "a" [] c = "B" -> "b"
              [] OTHER -> c

\* Nickname.nickname.ilike(p): SQL LIKE without regard to case.  In the
\* pattern "%" stands for any run of characters and "_" for any one
\* character; every other character stands for itself.  (The alphabet of
\* the texts used here has no backslash, whose meaning in a pattern depends
\* on the database the URL names.)
RECURSIVE ilike(_, _)
ilike(t, p) ==
    IF p = <<>> THEN t = <<>>
    ELSE IF Head(p) = "%"
    THEN ilike(t, Tail(p)) \/ (t # <<>> /\ ilike(Tail(t), p))
    ELSE /\ t # <<>>
         /\ Head(p) = "_" \/ lower(Head(t)) = lower(Head(p))
         /\ ilike(Tail(t), Tail(p))

\* Nickname(guild_id=..., nickname=..., created_by=...): is_active defaults
\* to True, id is assigned by the table
Nickname(g, text, by) ==
    [id |-> Cardinality(nicknames) + 1, guild_id |-> g, nickname |-> text,
     is_active |-> TRUE, created_by |-> by]

\* the rows the existence query of add_nickname and remove_nickname selects
Matching(g, cleaned) ==
    {r \in nicknames : r.guild_id = g /\ ilike(r.nickname, cleaned) /\ r.is_active}

\* A result of a store call: the new tables, the reply, the row returned
\* (a set: empty for None) and whether the call raised
StoreResult(gs, ns, reply, ret, raised) ==
    [guilds |-> gs, nicknames |-> ns, reply |-> reply, ret |-> ret, raised |-> raised]

\* add_nickname from session.add on: the row is inserted and returned.
\* guild_id is a foreign key into guilds: for a guild that has no row the
\* commit raises where the database enforces the key and inserts where it
\* does not.
add_nickname_insert(g, cleaned, by) ==
    LET new == Nickname(g, cleaned, by)
    IN  {StoreResult(guilds, nicknames \cup {new}, "Added", {new}, FALSE)}
        \cup (IF g \in DOMAIN guilds THEN {}
              ELSE {StoreResult(guilds, nicknames, "Raised", {}, TRUE)})

\* variation: no existence query
add_nickname_unchecked(g, raw, by) ==
    LET cleaned == strip(raw)
    IN  IF cleaned = <<>>
        THEN {StoreResult(guilds, nicknames, "None", {}, FALSE)}
        ELSE add_nickname_insert(g, cleaned, by)

\* variation: the existence query compares with = instead of ilike
add_nickname_exact(g, raw, by) ==
    LET cleaned == strip(raw)
    IN  IF cleaned = <<>>
        THEN {StoreResult(guilds, nicknames, "None", {}, FALSE)}
        ELSE IF \E r \in nicknames : r.guild_id = g /\ r.nickname = cleaned /\ r.is_active
        THEN {StoreResult(guilds, nicknames, "None", {}, FALSE)}
        ELSE add_nickname_insert(g, cleaned, by)

\* DatabaseManager.add_nickname(guild_id, nickname, created_by)
add_nickname(g, raw, by) ==
    LET cleaned == strip(raw)
    IN  IF cleaned = <<>>
        THEN {StoreResult(guilds, nicknames, "None", {}, FALSE)}
        ELSE IF Matching(g, cleaned) # {}
        THEN {StoreResult(guilds, nicknames, "None", {}, FALSE)}
        ELSE add_nickname_insert(g, cleaned, by)

\* variation: the row is deleted instead of flagged
remove_nickname_deletes(g, raw, by) ==
    LET cleaned == strip(raw)
    IN  IF g \notin DOMAIN guilds
        THEN {StoreResult(guilds, nicknames, "GuildNotFound", {}, FALSE)}
        ELSE IF guilds[g].owner_id # by
        THEN {StoreResult(guilds, nicknames, "NotOwner", {}, FALSE)}
        ELSE IF Matching(g, cleaned) = {}
        THEN {StoreResult(guilds, nicknames, "NotFound", {}, FALSE)}
        ELSE {StoreResult(guilds, nicknames \ {r}, "Removed", {r}, FALSE) :
                 r \in Matching(g, cleaned)}

\* variation: the requester is not compared with the owner
remove_nickname_unguarded(g, raw, by) ==
    LET cleaned == strip(raw)
    IN  IF g \notin DOMAIN guilds
        THEN {StoreResult(guilds, nicknames, "GuildNotFound", {}, FALSE)}
        ELSE IF Matching(g, cleaned) = {}
        THEN {StoreResult(guilds, nicknames, "NotFound", {}, FALSE)}
        ELSE {StoreResult(guilds,
                          (nicknames \ {r}) \cup {[r EXCEPT !.is_active = FALSE]},
                          "Removed", {r}, FALSE) : r \in Matching(g, cleaned)}

\* variation: the requester is compared with the owner the platform reports
remove_nickname_platform_owner(g, raw, by) ==
    LET cleaned == strip(raw)
    IN  IF g \notin DOMAIN guilds
        THEN {StoreResult(guilds, nicknames, "GuildNotFound", {}, FALSE)}
        ELSE IF owner_id[g] # by
        THEN {StoreResult(guilds, nicknames, "NotOwner", {}, FALSE)}
        ELSE IF Matching(g, cleaned) = {}
        THEN {StoreResult(guilds, nicknames, "NotFound", {}, FALSE)}
        ELSE {StoreResult(guilds,
                          (nicknames \ {r}) \cup {[r EXCEPT !.is_active = FALSE]},
                          "Removed", {r}, FALSE) : r \in Matching(g, cleaned)}

\* variation: the row is looked for before the guild is
remove_nickname_entry_first(g, raw, by) ==
    LET cleaned == strip(raw)
    IN  IF Matching(g, cleaned) = {}
        THEN {StoreResult(guilds, nicknames, "NotFound", {}, FALSE)}
        ELSE IF g \notin DOMAIN guilds
        THEN {StoreResult(guilds, nicknames, "GuildNotFound", {}, FALSE)}
        ELSE IF guilds[g].owner_id # by
        THEN {StoreResult(guilds, nicknames, "NotOwner", {}, FALSE)}
        ELSE {StoreResult(guilds,
                          (nicknames \ {r}) \cup {[r EXCEPT !.is_active = FALSE]},
                          "Removed", {r}, FALSE) : r \in Matching(g, cleaned)}

\* DatabaseManager.remove_nickname(guild_id, nickname, requester_id); first()
\* of a query without ORDER BY is any of the matching rows
remove_nickname(g, raw, by) ==
    LET cleaned == strip(raw)
    IN  IF g \notin DOMAIN guilds
        THEN {StoreResult(guilds, nicknames, "GuildNotFound", {}, FALSE)}
        ELSE IF guilds[g].owner_id # by
        THEN {StoreResult(guilds, nicknames, "NotOwner", {}, FALSE)}
        ELSE IF Matching(g, cleaned) = {}
        THEN {StoreResult(guilds, nicknames, "NotFound", {}, FALSE)}
        ELSE {StoreResult(guilds,
                          (nicknames \ {r}) \cup {[r EXCEPT !.is_active = FALSE]},
                          "Removed", {r}, FALSE) : r \in Matching(g, cleaned)}

\* variation: a guild that has a row is left as it is
ensure_guild_exists_insert_only(g, gname, owner) ==
    LET row == [name |-> gname, owner_id |-> owner]
    IN  IF g \notin DOMAIN guilds
        THEN {StoreResult(Put(guilds, g, row), nicknames, "Ensured", {}, FALSE)}
        ELSE {StoreResult(guilds, nicknames, "Ensured", {}, FALSE)}

\* DatabaseManager.ensure_guild_exists(guild_id, guild_name, owner_id)
ensure_guild_exists(g, gname, owner) ==
    LET row == [name |-> gname, owner_id |-> owner]
    IN  IF g \notin DOMAIN guilds
        THEN {StoreResult(Put(guilds, g, row), nicknames, "Ensured", {}, FALSE)}
        ELSE IF guilds[g].name # gname \/ guilds[g].owner_id # owner
        THEN {StoreResult([guilds EXCEPT ![g].name = gname, ![g].owner_id = owner],
                          nicknames, "Ensured", {}, FALSE)}
        ELSE {StoreResult(guilds, nicknames, "Ensured", {}, FALSE)}

\* the code point of a character, for the characters templates are made of
ord(c) == CASE c = " " -> 32 [] c = "%" -> 37 [] c = "O" -> 79 [] c = "S" -> 83
            [] c = "_" -> 95 [] c = "o" -> 111 [] c = "s" -> 115

\* a <= b in the order ORDER BY Nickname.nickname sorts by
RECURSIVE TextLeq(_, _)
TextLeq(a, b) ==
    IF a = <<>> THEN TRUE
    ELSE IF b = <<>> THEN FALSE
    ELSE IF Head(a) = Head(b) THEN TextLeq(Tail(a), Tail(b))
    ELSE ord(Head(a)) < ord(Head(b))

\* the orders in which .order_by(Nickname.nickname).all() may return rows
RECURSIVE OrderBy(_)
OrderBy(rows) ==
    IF rows = {} THEN {<<>>}
    ELSE UNION {{<<m>> \o rest : rest \in OrderBy(rows \ {m})} :
                   m \in {r \in rows : \A o \in rows : TextLeq(r.nickname, o.nickname)}}

\* variation: the query has no ORDER BY
RECURSIVE Unordered(_)
Unordered(rows) ==
    IF rows = {} THEN {<<>>}
    ELSE UNION {{<<m>> \o rest : rest \in Unordered(rows \ {m})} : m \in rows}

get_guild_nicknames_unordered(g) ==
    Unordered({r \in nicknames : r.guild_id = g /\ r.is_active})

\* DatabaseManager.get_guild_nicknames(guild_id): the lists it may return
get_guild_nicknames(g) ==
    OrderBy({r \in nicknames : r.guild_id = g /\ r.is_active})

\* The texts callers pass and the guild names the platform reports
RawTexts == {<<>>, <<" ">>, <<"s">>, <<" ", "s", " ">>, <<"O">>, <<"%">>}
GuildNames == {<<"G">>, <<"H">>}

tracker == <<variant, original_nicknames, nick, voice, requests, genCalls, rt, db>>

\* the id of the row a call returned, 0 for None
RowId(ret) == IF ret = {} THEN 0 ELSE (CHOOSE r \in ret : TRUE).id

Lower(s) == [i \in 1..Len(s) |-> lower(s[i])]

\* s without its leading and trailing whitespace, said without strip
Trimmed(s) ==
    IF \A i \in 1..Len(s) : s[i] \in Whitespace THEN <<>>
    ELSE LET a == CHOOSE i \in 1..Len(s) : s[i] \notin Whitespace /\ \A j \in 1..(i - 1) : s[j] \in Whitespace
             b == CHOOSE i \in 1..Len(s) : s[i] \notin Whitespace /\ \A j \in (i + 1)..Len(s) : s[j] \in Whitespace
         IN  SubSeq(s, a, b)

\* a store call returns result r; removed follows the templates callers
\* named in successful removals
Returned(r, op, g, by, raw) ==
    /\ guilds' = r.guilds
    /\ nicknames' = r.nicknames
    /\ removed' = IF r.reply = "Removed" THEN removed \cup {<<g, Lower(Trimmed(raw))>>}
                  ELSE IF r.reply = "Added" THEN removed \ {<<g, Lower(Trimmed(raw))>>}
                  ELSE removed
    /\ last' = [NoLast EXCEPT !.op = op, !.g = g, !.by = by, !.val = raw,
                              !.reply = r.reply, !.rec = RowId(r.ret), !.exc = r.raised]

\* The database as the bot finds it: fresh after create_tables, or holding
\* what earlier runs left (both guilds registered, one template of g1
\* active and one removed)
InitStore ==
    /\ variant = "working"
    /\ original_nicknames = [u \in {} |-> None]
    /\ nick = [u \in Users |-> [g \in Guilds |-> None]]
    /\ voice = [u \in Users |-> [g \in Guilds |-> NoChannel]]
    /\ tasks = {}
    /\ requests = <<>>
    /\ genCalls = 0
    /\ nops = 0
    /\ last = NoLast
    /\ rt = [u \in Users |-> RtIdle]
    /\ db = TRUE
    /\ removed = {}
    /\ \/ /\ guilds = [g \in {} |-> None]
          /\ nicknames = {}
       \/ /\ guilds = [g \in Guilds |-> [name |-> <<"G">>, owner_id |-> owner_id[g]]]
          /\ nicknames = {[id |-> 1, guild_id |-> "g1", nickname |-> <<"S">>, is_active |-> TRUE, created_by |-> "u1"],
                          [id |-> 2, guild_id |-> "g1", nickname |-> <<"O">>, is_active |-> FALSE, created_by |-> "u1"]}

EnsureGuild(g, gname, owner) ==
    /\ nops < MaxCalls
    /\ \E r \in ensure_guild_exists(g, gname, owner) : Returned(r, "ensure_guild_exists", g, owner, gname)
    /\ nops' = nops + 1
    /\ UNCHANGED <<tracker, tasks>>

AddNickname(g, raw, by) ==
    /\ nops < MaxCalls
    /\ \E r \in add_nickname(g, raw, by) : Returned(r, "add_nickname", g, by, raw)
    /\ nops' = nops + 1
    /\ UNCHANGED <<tracker, tasks>>

RemoveNickname(g, raw, by) ==
    /\ nops < MaxCalls
    /\ \E r \in remove_nickname(g, raw, by) : Returned(r, "remove_nickname", g, by, raw)
    /\ nops' = nops + 1
    /\ UNCHANGED <<tracker, tasks>>

\* The queries change nothing and are not counted against MaxCalls
GetGuildNicknames(g) ==
    /\ \E rows \in get_guild_nicknames(g) :
          last' = [NoLast EXCEPT !.op = "get_guild_nicknames", !.g = g, !.rows = rows]
    /\ UNCHANGED <<tracker, tasks, nops, guilds, nicknames, removed>>

GetRandomNickname(g) ==
    /\ \E t \in get_random_nickname(g) :
          last' = [NoLast EXCEPT !.op = "get_random_nickname", !.g = g, !.val = t]
    /\ UNCHANGED <<tracker, tasks, nops, guilds, nicknames, removed>>

\* generate_nickname(guild_id) is called on the store as it is now
GenerateNickname(g) ==
    /\ \E r \in generate_nickname(g) :
          last' = [NoLast EXCEPT !.op = "generate_nickname", !.g = g, !.val = r.val,
                                    !.exc = r.raised]
    /\ UNCHANGED <<tracker, tasks, nops, guilds, nicknames, removed>>

\* calls that do not overlap: each runs from its first statement to its
\* return before the next starts
NextStore ==
    \/ \E g \in Guilds, gname \in GuildNames, owner \in Humans : EnsureGuild(g, gname, owner)
    \/ \E g \in Guilds, raw \in RawTexts, by \in Humans : IsMember(by, g) /\ AddNickname(g, raw, by)
    \/ \E g \in Guilds, raw \in RawTexts, by \in Humans : IsMember(by, g) /\ RemoveNickname(g, raw, by)
    \/ \E g \in Guilds : GetGuildNicknames(g)
    \/ \E g \in Guilds : GetRandomNickname(g)
    \/ \E g \in Guilds : GenerateNickname(g)

SpecStore == InitStore /\ [][NextStore]_vars

\* Calls that overlap.  Every call opens a session of its own
\* (get_session); add_nickname runs its existence query and its insert as
\* two statements, and another session's statements may run in between.
\* AddQueried is add_nickname up to the query's answer: the call returns
\* None there, or goes on to the insert (AddCommitted).
AddQueried(g, raw, by) ==
    /\ nops < MaxCalls
    /\ LET cleaned == strip(raw)
       IN  IF cleaned = <<>> \/ Matching(g, cleaned) # {}
           THEN /\ Returned(StoreResult(guilds, nicknames, "None", {}, FALSE),
                            "add_nickname", g, by, raw)
                /\ tasks' = tasks
           ELSE /\ Cardinality(tasks) < MaxTasks
                /\ tasks' = tasks \cup {Task(nops + 1, "add", by, g, cleaned, raw, 0)}
                /\ last' = [NoLast EXCEPT !.op = "add_query", !.g = g, !.by = by, !.val = raw]
                /\ UNCHANGED <<guilds, nicknames, removed>>
    /\ nops' = nops + 1
    /\ UNCHANGED tracker

AddCommitted(t) ==
    /\ t \in tasks /\ t.kind = "add"
    /\ \E r \in add_nickname_insert(t.g, t.nick, t.u) : Returned(r, "add_nickname", t.g, t.u, t.orig)
    /\ tasks' = tasks \ {t}
    /\ UNCHANGED <<tracker, nops>>

NextOverlap ==
    \/ \E g \in Guilds, gname \in GuildNames, owner \in Humans : EnsureGuild(g, gname, owner)
    \/ \E g \in Guilds, raw \in RawTexts, by \in Humans : IsMember(by, g) /\ AddQueried(g, raw, by)
    \/ \E t \in tasks : AddCommitted(t)
    \/ \E g \in Guilds, raw \in RawTexts, by \in Humans : IsMember(by, g) /\ RemoveNickname(g, raw, by)

SpecOverlap == InitStore /\ [][NextOverlap]_vars

(***************************************************************************)
(* The commands that manage the templates (bot.py, bot_working.py).  A     *)
(* command's result is a store result; its reply is what the caller is     *)
(* told: "NoDatabase", "NoPermission" and "NotOwner" come from the         *)
(* command's own checks, "Error" from its except clause, every other reply *)
(* from the store call.                                                    *)
(***************************************************************************)
Refused(reply) == {StoreResult(guilds, nicknames, reply, {}, FALSE)}

\* the except clause of a command: the store call raised, the caller is
\* told of an error
Caught(results) ==
    {IF r.raised THEN StoreResult(r.guilds, r.nicknames, "Error", {}, FALSE) ELSE r : r \in results}

\* variation: the permission of the caller is not looked at
add_nickname_command_open(by, g, raw, perm) ==
    IF ~db THEN Refused("NoDatabase")
    ELSE Caught(add_nickname(g, raw, by))

\* bot.py add_nickname_command; perm is
\* interaction.user.guild_permissions.manage_nicknames
add_nickname_command(by, g, raw, perm) ==
    IF ~db THEN Refused("NoDatabase")
    ELSE IF ~perm THEN Refused("NoPermission")
    ELSE Caught(add_nickname(g, raw, by))

\* bot.py remove_nickname_command
remove_nickname_command(by, g, raw) ==
    IF ~db THEN Refused("NoDatabase")
    ELSE Caught(remove_nickname(g, raw, by))

\* sub in text
Contains(text, sub) ==
    \E i \in 1..(Len(text) + 1) :
        i + Len(sub) - 1 <= Len(text) /\ SubSeq(text, i, i + Len(sub) - 1) = sub

\* the rows of a list, in order, whose template contains the search term
RECURSIVE Matches(_, _)
Matches(rows, term) ==
    IF rows = <<>> THEN <<>>
    ELSE (IF Contains(Lower(Head(rows).nickname), term) THEN <<Head(rows)>> ELSE <<>>)
         \o Matches(Tail(rows), term)

\* bot.py find_nickname_command: the results are [reply, rows]
find_nickname_command(by, g, term) ==
    IF ~db THEN {[reply |-> "NoDatabase", rows |-> <<>>]}
    ELSE IF by # owner_id[g] THEN {[reply |-> "NotOwner", rows |-> <<>>]}
    ELSE {[reply |-> "Results", rows |-> Matches(rows, strip(Lower(term)))] :
             rows \in get_guild_nicknames(g)}

\* bot_working.py add_nickname_command
working_add_nickname_command(by, g, raw, perm) ==
    IF ~db THEN Refused("NoDatabase")
    ELSE IF by # owner_id[g] THEN Refused("NotOwner")
    ELSE Caught(add_nickname(g, raw, by))

\* bot_working.py remove_nickname_command
working_remove_nickname_command(by, g, raw) ==
    IF ~db THEN Refused("NoDatabase")
    ELSE IF by # owner_id[g] THEN Refused("NotOwner")
    ELSE Caught(remove_nickname(g, raw, by))

\* the texts callers pass to the commands
CommandTexts == {<<"O">>, <<" ", "s", " ">>, <<"%">>}

\* The database and the module the bot runs with
InitCommands ==
    /\ variant \in Variants
    /\ original_nicknames = [u \in {} |-> None]
    /\ nick = [u \in Users |-> [g \in Guilds |-> None]]
    /\ voice = [u \in Users |-> [g \in Guilds |-> NoChannel]]
    /\ tasks = {}
    /\ requests = <<>>
    /\ genCalls = 0
    /\ nops = 0
    /\ last = NoLast
    /\ rt = [u \in Users |-> RtIdle]
    /\ db \in BOOLEAN
    /\ removed = {}
    /\ \/ /\ guilds = [g \in {} |-> None]
          /\ nicknames = {}
       \/ /\ guilds = [g \in Guilds |-> [name |-> <<"G">>, owner_id |-> owner_id[g]]]
          /\ nicknames = {[id |-> 1, guild_id |-> "g1", nickname |-> <<"S">>, is_active |-> TRUE, created_by |-> "u1"],
                          [id |-> 2, guild_id |-> "g1", nickname |-> <<"O">>, is_active |-> FALSE, created_by |-> "u1"]}

\* on_ready / on_guild_join register the guild with the owner the platform
\* reports
GuildRegistered(g, gname) ==
    /\ db
    /\ EnsureGuild(g, gname, owner_id[g])

\* /add_nickname; the guild owner holds every permission
AddNicknameCommand(by, g, raw, perm) ==
    /\ nops < MaxCalls
    /\ by = owner_id[g] => perm
    /\ \E r \in (IF variant = "bot" THEN add_nickname_command(by, g, raw, perm)
                 ELSE working_add_nickname_command(by, g, raw, perm)) :
          /\ guilds' = r.guilds
          /\ nicknames' = r.nicknames
          /\ last' = [NoLast EXCEPT !.op = "add_nickname_command", !.g = g, !.by = by,
                                    !.val = raw, !.reply = r.reply, !.rec = RowId(r.ret),
                                    !.perm = perm]
    /\ nops' = nops + 1
    /\ UNCHANGED <<tracker, tasks, removed>>

\* /remove_nickname
RemoveNicknameCommand(by, g, raw) ==
    /\ nops < MaxCalls
    /\ \E r \in (IF variant = "bot" THEN remove_nickname_command(by, g, raw)
                 ELSE working_remove_nickname_command(by, g, raw)) :
          /\ guilds' = r.guilds
          /\ nicknames' = r.nicknames
          /\ last' = [NoLast EXCEPT !.op = "remove_nickname_command", !.g = g, !.by = by,
                                    !.val = raw, !.reply = r.reply, !.rec = RowId(r.ret)]
    /\ nops' = nops + 1
    /\ UNCHANGED <<tracker, tasks, removed>>

\* /find_nickname, a command of bot.py only
FindNicknameCommand(by, g, term) ==
    /\ variant = "bot"
    /\ \E r \in find_nickname_command(by, g, term) :
          last' = [NoLast EXCEPT !.op = "find_nickname_command", !.g = g, !.by = by,
                                    !.val = term, !.reply = r.reply, !.rows = r.rows]
    /\ UNCHANGED <<tracker, tasks, nops, guilds, nicknames, removed>>

NextCommands ==
    \/ \E g \in Guilds, gname \in GuildNames : GuildRegistered(g, gname)
    \/ \E g \in Guilds, raw \in CommandTexts, by \in Humans, perm \in BOOLEAN :
          IsMember(by, g) /\ AddNicknameCommand(by, g, raw, perm)
    \/ \E g \in Guilds, raw \in CommandTexts, by \in Humans :
          IsMember(by, g) /\ RemoveNicknameCommand(by, g, raw)
    \/ \E g \in Guilds, term \in CommandTexts, by \in Humans :
          IsMember(by, g) /\ FindNicknameCommand(by, g, term)

SpecCommands == InitCommands /\ [][NextCommands]_vars

(***************************************************************************)
(* Properties of the presence tracker                                      *)
(***************************************************************************)
Tracked(u) == u \in DOMAIN original_nicknames
TrackedAfter(u) == u \in DOMAIN original_nicknames'

Issued(id) == {i \in 1..Len(requests) : requests[i].id = id}

\* the step handled a voice state update of a human member
VoiceStep(edge) == last'.op = "voice" /\ last'.edge = edge /\ ~is_bot(last'.u)

\* the step is the handler's own: it issued nothing and changed no entry
Untouched ==
    /\ original_nicknames' = original_nicknames
    /\ requests' = requests
    /\ tasks' = tasks
    /\ genCalls' = genCalls
    /\ nick' = nick

\* C1: round trip.  When a join of user u in guild g, handled while u has
\* no ledger entry and no request pending, is followed by u's leave of g
\* with nothing else handled for u in between and every connector call
\* succeeding, the connector ends up showing for u in g the display
\* identity u had when the join was handled.
RoundTripIdentity ==
    \A u \in Users : rt[u].st = "left" => display_name(u, rt[u].g) = rt[u].d

RoundTripDone ==
    \E u \in Users :
        /\ rt[u].st = "left"
        /\ \E i, j \in 1..Len(requests) :
              /\ i < j
              /\ requests[i].kind = "join" /\ requests[i].u = u
              /\ requests[j].kind = "leave" /\ requests[j].u = u
              /\ requests[j].rec = requests[i].rec

\* C2: a join handled while the user already has a ledger entry changes
\* nothing: the stored original stays, the generator is not called and no
\* request is issued.
SecondJoinIsNoOp ==
    [][VoiceStep("join") /\ Tracked(last'.u) => Untouched]_vars

\* C3: ledger first.  When the connector refuses the request of a join or a
\* leave, the ledger is not rolled back: the entry the join created is
\* there unless a leave or restore has taken it since, and the entry the
\* leave found is gone.
LedgerFirstOnFailure ==
    [][last'.op = "done" /\ last'.outcome # "ok" =>
         /\ original_nicknames' = original_nicknames
         /\ last'.kind = "join" =>
               \/ TrackedAfter(last'.u)
               \/ \E i \in 1..Len(requests) :
                     requests[i].kind # "join" /\ requests[i].rec = last'.rec
         /\ last'.kind = "leave" =>
               ~(TrackedAfter(last'.u) /\ original_nicknames'[last'.u].op = last'.rec)]_vars

\* the request the leave transition issues for the entry of u: restore the
\* stored original, or clear the override when it equals the account name
RestoreRequest(kind, u, g) ==
    Req(nops + 1, kind, u, g,
        IF original_nicknames[u].nick # name[u] THEN original_nicknames[u].nick ELSE None,
        original_nicknames[u].op)

NewRequests == SubSeq(requests', Len(requests) + 1, Len(requests'))

\* C4: ordering on join.  When a join issues its apply request the entry it
\* created is already in the ledger, holding the display identity of that
\* moment; and a leave of the same guild handled while that request is
\* pending and the entry is there removes the entry and issues the restore
\* of the captured original.
OrderingOnJoin ==
    [][/\ \A i \in 1..Len(NewRequests) :
            NewRequests[i].kind = "join" =>
               /\ TrackedAfter(NewRequests[i].u)
               /\ original_nicknames'[NewRequests[i].u].op = NewRequests[i].rec
               /\ original_nicknames'[NewRequests[i].u].nick
                     = display_name(NewRequests[i].u, NewRequests[i].g)
       /\ \A t \in tasks :
            (/\ VoiceStep("leave") /\ t.kind = "join" /\ t.u = last'.u /\ t.g = last'.g
             /\ Tracked(t.u) /\ original_nicknames[t.u].op = t.rec)
            => /\ ~TrackedAfter(t.u)
               /\ requests' = Append(requests, RestoreRequest("leave", t.u, t.g))]_vars

\* C5: leave transition.  A leave of a user who has an entry removes the
\* entry and issues exactly one request for that user: set the stored
\* original, or clear the override when the stored original is the account
\* name.
LeaveTransition ==
    [][VoiceStep("leave") /\ Tracked(last'.u) =>
         /\ ~TrackedAfter(last'.u)
         /\ requests' = Append(requests, RestoreRequest("leave", last'.u, last'.g))]_vars

\* C6: only presence edges fire.  A voice state update whose before and
\* after are both absent or both present changes nothing; among voice state
\* updates only absent->present captures, calls the generator or issues an
\* apply, and only present->absent removes an entry or issues a restore.
OnlyEdgesFire ==
    [][last'.op = "voice" =>
         /\ last'.edge \in {"same", "move"} => Untouched
         /\ (\/ genCalls' # genCalls
             \/ \E i \in 1..Len(NewRequests) : NewRequests[i].kind = "join"
             \/ \E u \in Users : TrackedAfter(u) /\ (Tracked(u) => original_nicknames'[u] # original_nicknames[u]))
            => last'.edge = "join"
         /\ (\/ \E i \in 1..Len(NewRequests) : NewRequests[i].kind = "leave"
             \/ \E u \in Users : Tracked(u) /\ ~TrackedAfter(u))
            => last'.edge = "leave"]_vars

MovedWhileTracked ==
    /\ last.op = "voice" /\ last.edge = "move" /\ ~is_bot(last.u)
    /\ Tracked(last.u)
    /\ voice[last.u][last.g] # NoChannel

\* C7: bots are filtered.  A voice state update of a bot member changes
\* nothing, so the ledger never holds an entry for a bot and no request is
\* ever issued for one.
BotsAreIgnored ==
    /\ [](\A b \in Bots : ~Tracked(b) /\ \A i \in 1..Len(requests) : requests[i].u # b)
    /\ [][last'.op = "voice" /\ is_bot(last'.u) => Untouched]_vars

BotJoinedVoice ==
    /\ last.op = "voice" /\ is_bot(last.u) /\ last.edge = "join"
    /\ original_nicknames # <<>>

\* C8: a leave of a user who has no entry changes nothing: the ledger,
\* other users' entries included, stays and no request is issued.
LeaveWithoutRecordIsNoOp ==
    [][VoiceStep("leave") /\ ~Tracked(last'.u) => Untouched]_vars

LeftUntracked ==
    /\ last.op = "voice" /\ last.edge = "leave" /\ ~is_bot(last.u)
    /\ Issued(nops) = {}
    /\ ~Tracked(last.u)
    /\ original_nicknames # <<>>

\* C9 as stated: /restore for a member who has no entry replies NotTracked,
\* issues no request and leaves the ledger unchanged.
RestoreUntrackedRepliesNotTracked ==
    [][last'.op = "restore" /\ ~Tracked(last'.u) =>
         Untouched /\ last'.reply = "NotTracked"]_vars

\* C9 as amended: /restore for a member who has no entry issues no request
\* and leaves the ledger unchanged; it replies NotTracked, except that
\* bot_working.py rejects a caller who is not the guild owner first.
RestoreUntrackedIsNoOp ==
    [][last'.op = "restore" /\ ~Tracked(last'.u) =>
         /\ Untouched
         /\ \/ last'.reply = "NotTracked"
            \/ last'.reply = "NotOwner" /\ variant = "working" /\ last'.by # owner_id[last'.g]]_vars

RestoredUntracked ==
    /\ last.op = "restore" /\ last.reply = "NotTracked"
    /\ Issued(nops) = {}
    /\ original_nicknames # <<>>

\* C10: /restore for a member who has an entry does what the leave
\* transition does in the same state: the entry is removed, the same
\* request is issued, and when the connector accepts it the caller is told
\* the stored original.
ForceRestoreIsLeave ==
    [][/\ (last'.op = "restore" /\ Tracked(last'.u) /\ last'.reply # "NotOwner") =>
            /\ ~TrackedAfter(last'.u)
            /\ requests' = Append(requests, RestoreRequest("restore", last'.u, last'.g))
            /\ \E t \in tasks' \ tasks : t.orig = original_nicknames[last'.u].nick
       /\ (last'.op = "done" /\ last'.kind = "restore" /\ last'.outcome = "ok") =>
            /\ last'.reply = "Restored"
            /\ \E t \in tasks \ tasks' : last'.val = t.orig]_vars

\* C11: when the connector refuses the request of a /restore (permission
\* denied or another failure) the caller gets an error reply, never the
\* success message, and the entry the command found is gone from the ledger.
RestoreFailureSurfaced ==
    [][last'.op = "done" /\ last'.kind = "restore" /\ last'.outcome # "ok" =>
         /\ last'.reply \in {"Forbidden", "Error"}
         /\ ~(TrackedAfter(last'.u) /\ original_nicknames'[last'.u].op = last'.rec)]_vars

\* the suspended coroutine t has looked at the entry of t.u and will change
\* the ledger when its member.edit returns
MutationPending(t) == \E o \in Outcomes : resumed(t, o).led # original_nicknames

\* the step ran a handler that looks at or changes the entry of last'.u
HandlerStep ==
    \/ VoiceStep("join")
    \/ VoiceStep("leave")
    \/ last'.op = "restore" /\ last'.reply # "NotOwner"

\* C12: per-user serialization.  No join, leave or /restore handler of user
\* u runs between another u-handler's check of u's entry and that handler's
\* change of it; and a handler that changes the ledger after its await
\* changes the entry it checked.
PerUserSerialization ==
    [][/\ HandlerStep => ~\E t \in tasks : t.u = last'.u /\ MutationPending(t)
       /\ (last'.op = "done" /\ original_nicknames' # original_nicknames) =>
             /\ Tracked(last'.u)
             /\ original_nicknames[last'.u].op = last'.rec]_vars

\* C13: non-interference.  A step handled for user u (a voice state update,
\* a /restore aimed at u, or the answer to a request for u) leaves every
\* other user's ledger entry and nickname as they were and issues no
\* request for another user.
NonInterference ==
    [][last'.op \in {"voice", "restore", "done"} =>
         \A v \in Users \ {last'.u} :
            /\ Tracked(v) <=> TrackedAfter(v)
            /\ Tracked(v) => original_nicknames'[v] = original_nicknames[v]
            /\ nick'[v] = nick[v]
            /\ \A i \in 1..Len(NewRequests) : NewRequests[i].u # v
            /\ \A t \in tasks' \ tasks : t.u # v]_vars

JoinedBesideAnother ==
    /\ last.op = "voice" /\ last.edge = "join" /\ Tracked(last.u)
    /\ original_nicknames[last.u].op = nops
    /\ \E v \in Users \ {last.u} :
          /\ Tracked(v)
          /\ \E t \in tasks : t.u = v /\ t.kind = "join"

\* C14: every ledger entry is eventually removed.  Under fair delivery of
\* the leave event, a user who has an entry eventually has none, whether
\* the connector accepts the restore or refuses it.
EveryRecordEventuallyRemoved ==
    \A u \in Humans : Tracked(u) ~> ~Tracked(u)

\* the member still shows a nickname other than the original the old
\* process had stored
StillSubstituted(u) == display_name(u, rt[u].g) # rt[u].d

\* C31: the ledger is not persisted.  A restart leaves the ledger empty;
\* the first leave handled afterwards for a user whose entry the old process
\* held changes nothing and issues no request; and every restore request
\* ever issued is for the entry the ledger holds at that moment, so none is
\* issued for an entry of an earlier process.
RestartForgets ==
    [][/\ last'.op = "restart" => DOMAIN original_nicknames' = {}
       /\ (VoiceStep("leave") /\ rt[last'.u].st = "forgotten") => Untouched
       /\ \A i \in 1..Len(NewRequests) :
             NewRequests[i].kind \in {"leave", "restore"} =>
                /\ Tracked(NewRequests[i].u)
                /\ original_nicknames[NewRequests[i].u].op = NewRequests[i].rec]_vars

\* a user the old process had substituted has left after the restart and
\* still shows the substitute
LeftAfterRestart ==
    \E u \in Humans :
        /\ rt[u].st = "lost"
        /\ last.op = "voice" /\ last.u = u /\ last.edge = "leave"
        /\ StillSubstituted(u)
        /\ \E i \in 1..Len(requests) :
              /\ requests[i].kind = "join" /\ requests[i].u = u
              /\ requests[i].nick = nick[u][rt[u].g]
        /\ Issued(nops) = {}

\* C32: the original stored in a ledger entry is never a substitute: it is
\* never the nickname an earlier join of the tracker asked the connector to
\* give that member in that guild.
OriginalIsNeverSubstitute ==
    \A u \in DOMAIN original_nicknames :
        ~\E i \in 1..Len(requests) :
            /\ requests[i].kind = "join"
            /\ requests[i].u = u
            /\ requests[i].g = original_nicknames[u].g
            /\ requests[i].id < original_nicknames[u].op
            /\ requests[i].nick = original_nicknames[u].nick

\* C33: a ledger entry exists only for a user who is in a voice channel:
\* when u is in no channel, the ledger holds no entry for u once the handler
\* of u's leave has finished (it has no restore request pending any more).
RecordOnlyWhilePresent ==
    \A u \in DOMAIN original_nicknames :
        \/ \E g \in Guilds : voice[u][g] # NoChannel
        \/ \E t \in tasks : t.u = u /\ t.kind = "leave"

\* C34: at most one restore per entry.  No two requests of a leave or a
\* /restore are issued for the same ledger entry, however the handlers of
\* one user interleave at their awaits.
AtMostOneRestorePerRecord ==
    \A i, j \in 1..Len(requests) :
        (/\ requests[i].kind \in {"leave", "restore"}
         /\ requests[j].kind \in {"leave", "restore"}
         /\ requests[i].rec = requests[j].rec)
        => i = j

\* C35: the ledger is keyed by the user alone, whatever the guild.  Every
\* request a leave or a /restore issues for member u of guild g is built from
\* an entry that was captured from u's display name in that same guild g.
RestoreStaysInGuild ==
    [][\A i \in 1..Len(NewRequests) :
          NewRequests[i].kind \in {"leave", "restore"} =>
             /\ Tracked(NewRequests[i].u)
             /\ original_nicknames[NewRequests[i].u].g = NewRequests[i].g]_vars

\* what an observer sees of a handler's effects: the ledger and the
\* request log
Observed(effs) == {<<e.led, e.req>> : e \in effs}

\* C36: the two trackers are observationally equivalent.  In every state
\* either of them reaches, each event that can come next (a join or leave
\* of a member, a /restore, the answer to a pending request) leaves the
\* same ledger and the same request log whichever module handles it.
TrackersAgree ==
    /\ \A u \in Humans, g \in Guilds :
          IsMember(u, g) =>
             IF voice[u][g] = NoChannel
             THEN Observed(handle_voice_join(u, g, nops + 1))
                     = Observed(working_handle_voice_join(u, g, nops + 1))
             ELSE Observed(handle_voice_leave(u, g, nops + 1))
                     = Observed(working_handle_voice_leave(u, g, nops + 1))
    /\ \A by \in Humans, m \in Users \cup {Nobody}, g \in Guilds :
          (IsMember(by, g) /\ (m # Nobody => IsMember(m, g))) =>
             Observed(restore_command(by, m, g, nops + 1))
                = Observed(working_restore_command(by, m, g, nops + 1))
    /\ \A t \in tasks, outcome \in Outcomes :
          Observed({edit_returned(t, outcome)}) = Observed({working_edit_returned(t, outcome)})

(***************************************************************************)
(* Properties of the nickname store                                        *)
(***************************************************************************)
\* the active rows of guild g whose template equals text without regard to case
ActiveEqual(g, text) ==
    {r \in nicknames : r.guild_id = g /\ r.is_active /\ Lower(r.nickname) = Lower(text)}

StoreUnchanged == guilds' = guilds /\ nicknames' = nicknames

AtomicCheckAndInsert ==
    [][last'.op = "add_nickname" /\ last'.reply = "Added" =>
         ActiveEqual(last'.g, Trimmed(last'.val)) = {}]_vars

AddSucceeds ==
    [][(/\ last'.op = "add_nickname"
        /\ last'.g \in DOMAIN guilds
        /\ Trimmed(last'.val) # <<>>
        /\ ActiveEqual(last'.g, Trimmed(last'.val)) = {}) =>
         /\ last'.reply = "Added"
         /\ \E new \in nicknames' \ nicknames :
               /\ nicknames' = nicknames \cup {new}
               /\ new.id = last'.rec
               /\ new.nickname = Trimmed(last'.val) /\ new.guild_id = last'.g
               /\ new.created_by = last'.by /\ new.is_active]_vars

\* C19: add_nickname for a text that is empty or all whitespace returns
\* None, inserts nothing and leaves the store unchanged.
EmptyIsRejected ==
    [][(last'.op = "add_nickname" /\ \A i \in 1..Len(last'.val) : last'.val[i] \in Whitespace) =>
         last'.reply = "None" /\ ~last'.exc /\ StoreUnchanged]_vars

WhitespaceRejected ==
    /\ last.op = "add_nickname" /\ last.reply = "None"
    /\ last.val # <<>> /\ \A i \in 1..Len(last.val) : last.val[i] \in Whitespace
    /\ ActiveEqual(last.g, last.val) = {}

\* C20: remove_nickname by a requester who is not the owner the guild's row
\* names is refused as NotOwner and leaves every row as it was.
NonOwnerCannotRemove ==
    [][(/\ last'.op = "remove_nickname"
        /\ last'.g \in DOMAIN guilds
        /\ last'.by # guilds[last'.g].owner_id) =>
         last'.reply = "NotOwner" /\ StoreUnchanged]_vars

\* a non-owner was refused the removal of a template that is active
NonOwnerRefused ==
    /\ last.op = "remove_nickname" /\ last.reply = "NotOwner"
    /\ last.by # guilds[last.g].owner_id
    /\ ActiveEqual(last.g, Trimmed(last.val)) # {}

\* C21: remove_nickname by the guild's owner replies NotFound and changes
\* nothing when no active row of the guild equals the trimmed text without
\* regard to case; otherwise it clears is_active on exactly one such row,
\* changes no other row and reports success.
RemoveByOwner ==
    [][(/\ last'.op = "remove_nickname"
        /\ last'.g \in DOMAIN guilds
        /\ last'.by = guilds[last'.g].owner_id) =>
         IF ActiveEqual(last'.g, Trimmed(last'.val)) = {}
         THEN last'.reply = "NotFound" /\ StoreUnchanged
         ELSE /\ last'.reply = "Removed"
              /\ guilds' = guilds
              /\ \E r \in ActiveEqual(last'.g, Trimmed(last'.val)) :
                    nicknames' = (nicknames \ {r}) \cup {[r EXCEPT !.is_active = FALSE]}]_vars

\* C22: soft delete only.  Every row stays in the table with its id, guild,
\* template and creator, and is_active never goes from False to True.
SoftDeleteOnly ==
    [][\A r \in nicknames : \E k \in nicknames' :
          /\ k.id = r.id /\ k.guild_id = r.guild_id /\ k.nickname = r.nickname
          /\ k.created_by = r.created_by
          /\ k.is_active => r.is_active]_vars

\* a removal succeeded and its row is still in the table, inactive
RemovedRowKept ==
    /\ last.op = "remove_nickname" /\ last.reply = "Removed"
    /\ \E r \in nicknames : r.id = last.rec /\ ~r.is_active /\ r.guild_id = last.g

\* C23: get_guild_nicknames(g) returns exactly the active rows of g, each
\* once, in ascending order of the template, and changes nothing.
ListIsActiveSorted ==
    [][last'.op = "get_guild_nicknames" =>
         LET rows == last'.rows
         IN  /\ {rows[i] : i \in 1..Len(rows)}
                   = {r \in nicknames : r.guild_id = last'.g /\ r.is_active}
             /\ \A i, j \in 1..Len(rows) :
                   i < j => rows[i] # rows[j] /\ TextLeq(rows[i].nickname, rows[j].nickname)
             /\ StoreUnchanged]_vars

\* a list of two rows was returned while the guild had a removed row and
\* another guild an active one
ListedTwo ==
    /\ last.op = "get_guild_nicknames" /\ Len(last.rows) >= 2
    /\ \E r \in nicknames : r.guild_id = last.g /\ ~r.is_active
    /\ \E r \in nicknames : r.guild_id # last.g /\ r.is_active

\* C24: get_random_nickname(g) returns None exactly when
\* get_guild_nicknames(g) is empty, and otherwise the template of a row
\* that get_guild_nicknames(g) lists.
RandomIsListed ==
    [][last'.op = "get_random_nickname" =>
         /\ last'.val = None <=> get_guild_nicknames(last'.g) = {<<>>}
         /\ last'.val # None =>
               \E rows \in get_guild_nicknames(last'.g) :
                  \E i \in 1..Len(rows) : rows[i].nickname = last'.val
         /\ StoreUnchanged]_vars

\* a template was drawn from a guild that also has a removed row
DrawnBesideRemoved ==
    /\ last.op = "get_random_nickname" /\ last.val # None
    /\ \E r \in nicknames : r.guild_id = last.g /\ ~r.is_active

\* val is the template t, alone or followed by a blank and three characters
UsesTemplate(val, t) ==
    \/ val = t
    \/ Len(val) = Len(t) + 4 /\ SubSeq(val, 1, Len(t)) = t /\ val[Len(t) + 1] = " "

\* C25: once remove_nickname(g, t, owner) has succeeded and until t is
\* added to g again, get_random_nickname(g) does not return t in any letter
\* case and generate_nickname(g) returns no text built on t.
RemovedNeverReturned ==
    [][(last'.op \in {"get_random_nickname", "generate_nickname"} /\ last'.val # None) =>
         \A p \in removed : p[1] = last'.g => ~UsesTemplate(Lower(last'.val), p[2])]_vars

Digits == {"0", "1", "2", "3", "4", "5", "6", "7", "8", "9"}

\* s is "<template> <NNN>", NNN three digits for a number in 1..999
HasCounterForm(s) ==
    /\ Len(s) >= 5
    /\ s[Len(s) - 3] = " "
    /\ \A i \in (Len(s) - 2)..Len(s) : s[i] \in Digits
    /\ SubSeq(s, Len(s) - 2, Len(s)) # <<"0", "0", "0">>

\* C26: every text generate_nickname returns has the form "<template> <NNN>".
GeneratedHasCounter ==
    [][(last'.op = "generate_nickname" /\ ~last'.exc) => HasCounterForm(last'.val)]_vars

\* C27: generate_nickname never fails: it raises nothing and returns a text
\* that is not empty, also when the guild has no active template and when
\* the store call raises.
GenerateNeverFails ==
    [][last'.op = "generate_nickname" => ~last'.exc /\ last'.val # None]_vars

\* C28: ensure_guild_exists(id, name, owner) leaves the guild's row holding
\* that name and owner, whether the row was there or not, leaves the other
\* guilds' rows and every template row as they were, and changes nothing
\* when it is repeated; no other call changes a guild's row.
EnsureIsUpsert ==
    [][/\ last'.op = "ensure_guild_exists" =>
            /\ DOMAIN guilds' = DOMAIN guilds \cup {last'.g}
            /\ guilds'[last'.g] = [name |-> last'.val, owner_id |-> last'.by]
            /\ \A g \in DOMAIN guilds \ {last'.g} : guilds'[g] = guilds[g]
            /\ nicknames' = nicknames
            /\ ~last'.exc
            /\ (last.op = "ensure_guild_exists" /\ last.g = last'.g /\ last.val = last'.val
                /\ last.by = last'.by) => guilds' = guilds
       /\ last'.op # "ensure_guild_exists" => guilds' = guilds]_vars

\* the row of a guild that has templates was overwritten with a new owner
OwnerOverwritten ==
    /\ last.op = "ensure_guild_exists"
    /\ guilds[last.g] = [name |-> last.val, owner_id |-> last.by]
    /\ last.by # owner_id[last.g]
    /\ \E r \in nicknames : r.guild_id = last.g /\ r.is_active

\* C30: no failure escapes its handler: whatever the connector, the store
\* or the generator does, the handlers of voice state updates and of
\* /restore return without an exception.
NoExceptionEscapes ==
    [][~last'.exc]_vars

\* C37: remove_nickname authorizes against the owner the guild's row
\* names, which is the owner the latest ensure_guild_exists of that guild was
\* given: the row's owner changes only in such a call, the call stores the
\* owner it was given, the requester who equals the stored owner is never
\* refused as NotOwner and nobody else removes anything, whoever the
\* platform reports as owner.
StoredOwnerDecides ==
    [][/\ \A g \in DOMAIN guilds' :
             (g \notin DOMAIN guilds \/ guilds'[g].owner_id # guilds[g].owner_id) =>
                last'.op = "ensure_guild_exists" /\ last'.g = g
       /\ last'.op = "ensure_guild_exists" =>
             /\ last'.g \in DOMAIN guilds'
             /\ guilds'[last'.g].owner_id = last'.by
       /\ (last'.op = "remove_nickname" /\ last'.g \in DOMAIN guilds) =>
             /\ last'.by = guilds[last'.g].owner_id => last'.reply \in {"NotFound", "Removed"}
             /\ last'.reply = "Removed" => last'.by = guilds[last'.g].owner_id]_vars

\* the owner a registration stored, who is not the owner the platform
\* reports, has removed a template
StaleOwnerRemoved ==
    /\ last.op = "remove_nickname" /\ last.reply = "Removed"
    /\ last.by = guilds[last.g].owner_id
    /\ last.by # owner_id[last.g]
    /\ \E r \in nicknames : r.id = last.rec /\ ~r.is_active

\* C38: remove_nickname for a guild that has no row replies GuildNotFound
\* and changes nothing, whoever asks and whatever the text, also when the
\* guild has an active row of that template.
UnregisteredGuildNotFound ==
    [][(last'.op = "remove_nickname" /\ last'.g \notin DOMAIN guilds) =>
          last'.reply = "GuildNotFound" /\ StoreUnchanged]_vars

\* GuildNotFound was the reply although the template is active in the guild
GuildNotFoundDespiteRow ==
    /\ last.op = "remove_nickname" /\ last.reply = "GuildNotFound"
    /\ last.g \notin DOMAIN guilds
    /\ ActiveEqual(last.g, Trimmed(last.val)) # {}

\* C39: inactive rows do not block adding again.  add_nickname of the text
\* a remove_nickname of the same guild has just removed succeeds: a new
\* active row is stored, the removed row stays stored and inactive, and the
\* guild has exactly one active row of that template.
ReAddAfterRemove ==
    [][(/\ last.op = "remove_nickname" /\ last.reply = "Removed"
        /\ last'.op = "add_nickname" /\ last'.g = last.g
        /\ Trimmed(last'.val) = Trimmed(last.val)) =>
          /\ last'.reply = "Added"
          /\ \E new \in nicknames' \ nicknames :
                /\ new.guild_id = last'.g /\ new.is_active
                /\ new.nickname = Trimmed(last'.val)
          /\ \E r \in nicknames' : r.id = last.rec /\ ~r.is_active
          /\ Cardinality({r \in nicknames' :
                            /\ r.guild_id = last'.g /\ r.is_active
                            /\ Lower(r.nickname) = Lower(Trimmed(last'.val))}) = 1]_vars

(***************************************************************************)
(* Properties of the commands                                              *)
(***************************************************************************)
\* the replies of a command whose request was passed on to the store
FromStore == {"Added", "None", "Removed", "NotFound", "GuildNotFound", "Error"}

====
